---- MODULE Spec2Model ----
(***************************************************************************)
(* Chain Integrity Engine of hodl-my-notes: the local hash chain           *)
(* (ChainManager), the Merkle commitments, the reconciliation against the  *)
(* ledger (LogbookReconstructor) and the bundle verifier                   *)
(* (LogbookVerifier.performVerification).                                  *)
(*                                                                         *)
(* Strings and digests are modelled as finite sequences of naturals that   *)
(* encode their preimage, so that SHA-256 is injective and never the       *)
(* identity:                                                               *)
(*   <<0, k>>                 the plain text number k (text 0 = "genesis") *)
(*   <<1, ts, bn>> \o h       the placeholder text written for hash h      *)
(*   <<2>> \o d               "0x" + hex of the digest d (64 hex chars)    *)
(*   <<3, k>>                 "0x" + the k-th string of 1..63 hex chars    *)
(*   <<4, k>>                 the k-th string that is not "0x" + hex       *)
(*   <<>>                     the empty string                             *)
(*   <<5>> \o s               digest: sha256 of the UTF-8 bytes of s       *)
(*   <<6, Len(a)>> \o a \o b  digest: sha256 of the bytes a ++ b           *)
(* Buffer.compare is the lexicographic order on these sequences.           *)
(***************************************************************************)
EXTENDS Integers, Sequences, FiniteSets, TLC

\* ------------------------------------------------------------------ bounds
MaxLen == 3        \* longest local chain an addEntry may produce
MaxLedger == 2     \* longest ledger snapshot
MaxAnchored == 3   \* ledger length up to which an anchor call is mined
MaxBundle == 2     \* longest export bundle
MaxRuns == 2       \* completed rebuilds the history counts (it saturates)
MaxLeaves == 5     \* longest leaf list a Merkle proof is made for

\* ------------------------------------------------------------- hash utils
Text(k) == <<0, k>>

Sha256Str(s) == <<5>> \o s

Sha256Bytes(a, b) == <<6, Len(a)>> \o a \o b

Hex(d) == <<2>> \o d

hashContent(content) == Hex(Sha256Str(content))

GENESIS_HASH == hashContent(Text(0))

RECURSIVE BufferLeq(_, _)
BufferLeq(a, b) ==
  IF a = <<>> THEN TRUE
  ELSE IF b = <<>> THEN FALSE
  ELSE IF Head(a) < Head(b) THEN TRUE
  ELSE IF Head(a) > Head(b) THEN FALSE
  ELSE BufferLeq(Tail(a), Tail(b))

\* ------------------------------------------------------------ merkle utils
hashLeaf(data) == Sha256Str(data)

hashPair(a, b) == IF BufferLeq(a, b) THEN Sha256Bytes(a, b) ELSE Sha256Bytes(b, a)

RECURSIVE createLayer(_)
createLayer(nodes) ==
  IF Len(nodes) = 0 THEN <<>>
  ELSE IF Len(nodes) = 1 THEN <<nodes[1]>>
  ELSE <<hashPair(nodes[1], nodes[2])>> \o createLayer(SubSeq(nodes, 3, Len(nodes)))

RECURSIVE treeRoot(_)
treeRoot(nodes) ==
  IF Len(nodes) = 0 THEN <<>>
  ELSE IF Len(nodes) = 1 THEN nodes[1]
  ELSE treeRoot(createLayer(nodes))

createMerkleTree(leaves) == [i \in 1..Len(leaves) |-> hashLeaf(leaves[i])]

getMerkleRoot(tree) == Hex(treeRoot(tree))

\* Buffer.from(p.slice(2), "hex") of a 0x-prefixed hex string
FromHex(p) == Tail(p)

\* tree.layers: the leaves, then each layer of parents up to the root
RECURSIVE treeLayers(_)
treeLayers(nodes) ==
  IF Len(nodes) <= 1 THEN <<nodes>>
  ELSE <<nodes>> \o treeLayers(createLayer(nodes))

\* the position getProof finds for a hashed leaf: the last equal leaf, 0 if none
leafIndex(tree, hashedLeaf) ==
  IF \E i \in 1..Len(tree) : tree[i] = hashedLeaf
    THEN CHOOSE i \in 1..Len(tree) :
           /\ tree[i] = hashedLeaf
           /\ \A j \in (i + 1)..Len(tree) : tree[j] # hashedLeaf
    ELSE 0

\* tree.getProof from layer k upwards, index counted from 1: the sibling of
\* the node in each layer that has one
RECURSIVE getProof(_, _, _)
getProof(layers, k, index) ==
  IF k > Len(layers) THEN <<>>
  ELSE LET layer == layers[k]
           pairIndex == IF index % 2 = 0 THEN index - 1 ELSE index + 1
           rest == getProof(layers, k + 1, (index + 1) \div 2)
       IN IF pairIndex <= Len(layer) THEN <<layer[pairIndex]>> \o rest ELSE rest

getMerkleProof(tree, leaf) ==
  LET index == leafIndex(tree, hashLeaf(leaf))
      proof == IF index = 0 THEN <<>> ELSE getProof(treeLayers(tree), 1, index)
  IN [i \in 1..Len(proof) |-> Hex(proof[i])]

\* MerkleTree.verify folding the proof without sorting each pair
RECURSIVE verify_unsorted(_, _)
verify_unsorted(proof, hash) ==
  IF proof = <<>> THEN hash
  ELSE verify_unsorted(Tail(proof), Sha256Bytes(hash, Head(proof)))

\* MerkleTree.verify with sortPairs: the hash the proof leads to
RECURSIVE verify(_, _)
verify(proof, hash) ==
  IF proof = <<>> THEN hash
  ELSE LET data == Head(proof)
       IN verify(Tail(proof),
                 IF BufferLeq(hash, data) /\ hash # data
                   THEN Sha256Bytes(hash, data)
                   ELSE Sha256Bytes(data, hash))

verifyMerkleProof(proof, leaf, root) ==
  verify([i \in 1..Len(proof) |-> FromHex(proof[i])], hashLeaf(leaf)) = FromHex(root)


\* --------------------------------------------------------- input domains
Inst == {1, 2}                 \* ChainManager objects opened on the logbook

User == {1}                    \* the object the menu operations work through

Names == {"n1", "n2"}          \* entry names

EntryHashes == {hashContent(Text(1)), hashContent(Text(2))}

TxHashes == {"0xt1"}           \* well-formed transaction hashes

BadTxHashes == {"invalid-tx"}  \* strings that are not 0x + 64 hex chars

ShortHex(k) == <<3, k>>        \* such as "0xabcdef1234567890"

NotHex(k) == <<4, k>>          \* such as "invalid-hash", "0xWRONGHASH"

\* what a caller may pass to addEntry as entryHash
EntryHashInputs == {hashContent(Text(1)), ShortHex(1), NotHex(1), <<>>}

\* what a caller may pass as timestamp and as blockNumber
NumberInputs == {-1, 0}

RECONSTRUCTED == "reconstructed"

LOGBOOK == "lb"

NoFile == <<>>                 \* fs.existsSync(entryPath) is false

Unreadable == <<9>>            \* entry.txt exists, fs.readFileSync throws

LedgerEntries ==
  [name : Names, entryHash : EntryHashes,
   previousHash : {GENESIS_HASH, hashContent(Text(1))},
   timestamp : {2}, blockNumber : {3}]

RECURSIVE SeqsUpTo(_, _)
SeqsUpTo(S, n) ==
  IF n = 0 THEN {<<>>}
  ELSE LET shorter == SeqsUpTo(S, n - 1)
       IN shorter \cup {Append(q, x) : q \in {r \in shorter : Len(r) = n - 1}, x \in S}

Ledgers == SeqsUpTo(LedgerEntries, MaxLedger)

\* ------------------------------------------------------------------ state
VARIABLES
  disk,        \* chain.json: [state : {"absent", "ok", "partial", "invalid"},
               \*              logbookName, entries]
  mem,         \* per ChainManager object: [open, entries] (this.data)
  files,       \* entry.txt of each entry name: its content, or NoFile
  ledger,      \* the contract's entries for the logbook
  rpc,         \* position of LogbookReconstructor.reconstruct
  syncResult,  \* result of syncFromContract
  check,       \* result of checkLocalIntegrity
  validation,  \* the report validateChain returned last
  bundle,      \* ExportData.entries handed to performVerification
  vpc,         \* position of LogbookVerifier.performVerification
  allValid,    \* its local allValid
  hasPlaceholders,  \* its local hasPlaceholders
  report,      \* what it printed per entry: [content, link, chain, contract]
  verdict,     \* the banner it printed last
  returned,    \* what the caller holds from getEntries / getLastEntry
  thrown,      \* message of the Error the last ChainManager call threw
  lastRun,     \* history: what the completed rebuilds of reconstruct() left
  merkle,      \* a Merkle proof being made and verified: [pc, leaves, leaf, ...]
  create       \* LogbookCreator.create in progress: [pc, name, content, ...]

vars == <<disk, mem, files, ledger, rpc, syncResult, check, validation,
          bundle, vpc, allValid, hasPlaceholders, report, verdict,
          returned, thrown, lastRun, merkle, create>>

apiVars == <<returned, thrown>>

flowVars == <<rpc, syncResult, check, validation>>

verVars == <<bundle, vpc, allValid, hasPlaceholders, report, verdict>>

chainVars == <<disk, mem, files>>

NoSync == [success |-> FALSE, entries |-> <<>>]

NoCheck == [needsReconstruction |-> FALSE, contractEntries |-> <<>>]

\* no report held (a report has valid = (errors = <<>>))
NoValidation == [threw |-> FALSE, valid |-> FALSE, errors |-> <<>>]

NoReturned == [from |-> 0, refs |-> <<>>]

\* no rebuild completed yet; on = whether this behaviour keeps the history
NoRun(on) == [on |-> on, n |-> 0, disk |-> <<>>, files |-> <<>>]

\* no Merkle proof asked for
NoMerkle ==
  [pc |-> "off", leaves |-> <<>>, leaf |-> <<>>, tree |-> <<>>, root |-> <<>>,
   proof |-> <<>>, verified |-> FALSE]

\* no create() in progress
NoCreate ==
  [pc |-> "idle", name |-> "", content |-> <<>>, entryHash |-> <<>>,
   previousHash |-> <<>>, txHash |-> ""]

\* ----------------------------------------------------------- merkle calls
\* tree = createMerkleTree(leaves); root = getMerkleRoot(tree)
MCreateTree ==
  /\ merkle.pc = "leaves"
  /\ merkle' = [merkle EXCEPT !.pc = "tree",
                              !.tree = createMerkleTree(merkle.leaves),
                              !.root = getMerkleRoot(createMerkleTree(merkle.leaves))]
  /\ UNCHANGED <<chainVars, ledger, flowVars, verVars, apiVars, lastRun, create>>

\* proof = getMerkleProof(tree, leaf)
MGetProof ==
  /\ merkle.pc = "tree"
  /\ merkle' = [merkle EXCEPT !.pc = "proof",
                              !.proof = getMerkleProof(merkle.tree, merkle.leaf)]
  /\ UNCHANGED <<chainVars, ledger, flowVars, verVars, apiVars, lastRun, create>>

\* verifyMerkleProof(proof, leaf, root)
MVerify ==
  /\ merkle.pc = "proof"
  /\ merkle' = [merkle EXCEPT !.pc = "done",
                              !.verified = verifyMerkleProof(merkle.proof, merkle.leaf,
                                                             merkle.root)]
  /\ UNCHANGED <<chainVars, ledger, flowVars, verVars, apiVars, lastRun, create>>

\* ----------------------------------------------------------- ChainManager
Doc(entries) == [state |-> "ok", logbookName |-> LOGBOOK, entries |-> entries]

logbookExists(d) == d.state # "absent"

\* chain.json after a writeFileSync that did not complete: not parsable
Partial == [state |-> "partial", logbookName |-> LOGBOOK, entries |-> <<>>]

\* chain.json that parses but has no logbookName or no entries array
Invalid == [state |-> "invalid", logbookName |-> LOGBOOK, entries |-> <<>>]

\* a loadOrCreateChain that starts a new chain over a chain.json it cannot use
loadOrCreateChain_discards(d) ==
  IF d.state = "ok"
    THEN [throws |-> FALSE, error |-> "none", data |-> d.entries, disk |-> d]
    ELSE [throws |-> FALSE, error |-> "none", data |-> <<>>, disk |-> Doc(<<>>)]

\* a loadOrCreateChain that always starts from the genesis chain
loadOrCreateChain_fresh(d) ==
  IF d.state \in {"partial", "invalid"}
    THEN [throws |-> TRUE, error |-> "Corrupted chain.json", data |-> <<>>, disk |-> d]
    ELSE [throws |-> FALSE, error |-> "none", data |-> <<>>, disk |-> Doc(<<>>)]

\* loadOrCreateChain: whether it throws (and what), the data it returns and
\* the chain.json it leaves
loadOrCreateChain(d) ==
  IF d.state = "partial"
    THEN [throws |-> TRUE, error |-> "Corrupted chain.json", data |-> <<>>, disk |-> d]
  ELSE IF d.state = "invalid"
    THEN [throws |-> TRUE, error |-> "Invalid chain.json structure",
          data |-> <<>>, disk |-> d]
  ELSE IF d.state = "ok"
    THEN [throws |-> FALSE, error |-> "none", data |-> d.entries, disk |-> d]
    ELSE [throws |-> FALSE, error |-> "none", data |-> <<>>, disk |-> Doc(<<>>)]

\* /^0x[0-9a-fA-F]{64}$/
CanonicalHash(h) == Len(h) > 1 /\ h[1] = 2

\* entryHash && /^0x[0-9a-fA-F]+$/
ValidEntryHash(h) == Len(h) > 1 /\ h[1] \in {2, 3}

ValidTxHash(t) == t \in TxHashes

\* addEntry that links every entry to genesis
newEntry_genesisOnly(entries, name, entryHash, txHash, timestamp, blockNumber) ==
  [name |-> name, entryHash |-> entryHash, previousHash |-> GENESIS_HASH,
   txHash |-> txHash, timestamp |-> timestamp, blockNumber |-> blockNumber,
   merkleRoot |-> getMerkleRoot(createMerkleTree(
       Append([k \in 1..Len(entries) |-> entries[k].entryHash], entryHash)))]

\* addEntry computing the root before the new hash joins the list
newEntry_rootBeforePush(entries, name, entryHash, txHash, timestamp, blockNumber) ==
  [name |-> name, entryHash |-> entryHash,
   previousHash |-> IF Len(entries) > 0 THEN entries[Len(entries)].entryHash
                    ELSE GENESIS_HASH,
   txHash |-> txHash, timestamp |-> timestamp, blockNumber |-> blockNumber,
   merkleRoot |-> getMerkleRoot(createMerkleTree(
       [k \in 1..Len(entries) |-> entries[k].entryHash]))]

\* The entry addEntry builds on top of the entries it holds
newEntry(entries, name, entryHash, txHash, timestamp, blockNumber) ==
  LET previousHash ==
        IF Len(entries) > 0 THEN entries[Len(entries)].entryHash ELSE GENESIS_HASH
      allHashes == Append([k \in 1..Len(entries) |-> entries[k].entryHash], entryHash)
  IN [name |-> name, entryHash |-> entryHash, previousHash |-> previousHash,
      txHash |-> txHash, timestamp |-> timestamp, blockNumber |-> blockNumber,
      merkleRoot |-> getMerkleRoot(createMerkleTree(allHashes))]

\* the array the caller holds no longer shares objects with object i
Detached(i) == IF returned.from = i THEN NoReturned ELSE returned

\* new ChainManager(logbookName)
Open(i) ==
  /\ IF loadOrCreateChain(disk).throws
       THEN /\ thrown' = loadOrCreateChain(disk).error
            /\ disk' = loadOrCreateChain(disk).disk
            /\ UNCHANGED <<mem, returned>>
       ELSE /\ mem' = [mem EXCEPT ![i] = [open |-> TRUE,
                                          entries |-> loadOrCreateChain(disk).data]]
            /\ disk' = loadOrCreateChain(disk).disk
            /\ returned' = Detached(i)
            /\ thrown' = "none"
  /\ UNCHANGED <<files, ledger, flowVars, verVars, lastRun, merkle, create>>

\* addEntry: validation, previousHash, Merkle root, push, save
AddEntry(i, name, entryHash, txHash, timestamp, blockNumber) ==
  /\ mem[i].open
  /\ Len(mem[i].entries) < MaxLen
  /\ ValidEntryHash(entryHash)
  /\ ValidTxHash(txHash)
  /\ timestamp >= 0
  /\ blockNumber >= 0
  /\ LET entries == Append(mem[i].entries,
                      newEntry(mem[i].entries, name, entryHash, txHash, timestamp, blockNumber))
     IN /\ mem' = [mem EXCEPT ![i].entries = entries]
        /\ disk' = Doc(entries)
  /\ thrown' = "none"
  /\ UNCHANGED <<files, ledger, flowVars, verVars, returned, lastRun, merkle, create>>

\* the Error of the first check of addEntry that fails
addEntryError(entryHash, txHash, timestamp, blockNumber) ==
  IF ~ValidEntryHash(entryHash) THEN "Invalid entry hash format"
  ELSE IF ~ValidTxHash(txHash) THEN "Invalid transaction hash format"
  ELSE IF timestamp < 0 THEN "Timestamp must be a positive number"
  ELSE IF blockNumber < 0 THEN "Block number must be a positive number"
  ELSE "none"

\* an addEntry that pushes the entry before it checks its arguments
AddEntryRejected_pushFirst(i, name, entryHash, txHash, timestamp, blockNumber) ==
  /\ mem[i].open
  /\ Len(mem[i].entries) < MaxLen
  /\ addEntryError(entryHash, txHash, timestamp, blockNumber) # "none"
  /\ mem' = [mem EXCEPT ![i].entries =
               Append(@, newEntry(@, name, entryHash, txHash, timestamp, blockNumber))]
  /\ thrown' = addEntryError(entryHash, txHash, timestamp, blockNumber)
  /\ UNCHANGED <<disk, files, ledger, flowVars, verVars, returned, lastRun, merkle, create>>

\* addEntry throwing from one of its four checks
AddEntryRejected(i, name, entryHash, txHash, timestamp, blockNumber) ==
  /\ mem[i].open
  /\ addEntryError(entryHash, txHash, timestamp, blockNumber) # "none"
  /\ thrown' = addEntryError(entryHash, txHash, timestamp, blockNumber)
  /\ UNCHANGED <<disk, mem, files, ledger, flowVars, verVars, returned, lastRun, merkle, create>>

\* clear
Clear(i) ==
  /\ mem[i].open
  /\ mem' = [mem EXCEPT ![i].entries = <<>>]
  /\ disk' = Doc(<<>>)
  /\ returned' = Detached(i)
  /\ thrown' = "none"
  /\ UNCHANGED <<files, ledger, flowVars, verVars, lastRun, merkle, create>>

\* a reconstruct that links each entry to the one before it
Reconstruct_relinks(i, entries) ==
  /\ mem[i].open
  /\ mem' = [mem EXCEPT ![i].entries =
               [k \in 1..Len(entries) |->
                  [entries[k] EXCEPT !.previousHash =
                     IF k = 1 THEN GENESIS_HASH ELSE entries[k - 1].entryHash]]]
  /\ disk' = Doc(mem'[i].entries)
  /\ returned' = Detached(i)
  /\ thrown' = "none"
  /\ UNCHANGED <<files, ledger, flowVars, verVars, lastRun, merkle, create>>

\* reconstruct(entries)
Reconstruct(i, entries) ==
  /\ mem[i].open
  /\ mem' = [mem EXCEPT ![i].entries = entries]
  /\ disk' = Doc(entries)
  /\ returned' = Detached(i)
  /\ thrown' = "none"
  /\ UNCHANGED <<files, ledger, flowVars, verVars, lastRun, merkle, create>>

\* getEntries: a new array of the entry objects the store holds; the caller
\* holds references (positions in this.data.entries) to them
GetEntries(i) ==
  /\ mem[i].open
  /\ returned' = [from |-> i, refs |-> [k \in 1..Len(mem[i].entries) |-> k]]
  /\ thrown' = "none"
  /\ UNCHANGED <<chainVars, ledger, flowVars, verVars, lastRun, merkle, create>>

\* getLastEntry: the last entry object itself, or null
GetLastEntry(i) ==
  /\ mem[i].open
  /\ returned' = [from |-> i,
                  refs |-> IF Len(mem[i].entries) > 0 THEN <<Len(mem[i].entries)>> ELSE <<>>]
  /\ thrown' = "none"
  /\ UNCHANGED <<chainVars, ledger, flowVars, verVars, lastRun, merkle, create>>

\* the caller reorders the array it was returned
CallerReverses ==
  /\ Len(returned.refs) >= 2
  /\ returned' = [returned EXCEPT !.refs =
                    [k \in 1..Len(returned.refs) |-> returned.refs[Len(returned.refs) + 1 - k]]]
  /\ UNCHANGED <<chainVars, ledger, flowVars, verVars, thrown, lastRun, merkle, create>>

\* the caller truncates the array it was returned
CallerTruncates ==
  /\ Len(returned.refs) >= 1
  /\ returned' = [returned EXCEPT !.refs = SubSeq(@, 1, Len(@) - 1)]
  /\ UNCHANGED <<chainVars, ledger, flowVars, verVars, thrown, lastRun, merkle, create>>

\* the caller assigns previousHash of the j-th entry object it was returned
CallerAssigns(j, value) ==
  /\ j \in 1..Len(returned.refs)
  /\ mem' = [mem EXCEPT ![returned.from].entries[returned.refs[j]].previousHash = value]
  /\ UNCHANGED <<disk, files, ledger, flowVars, verVars, apiVars, lastRun, merkle, create>>

\* the process dies inside the fs.writeFileSync of a save
CrashInSave(i) ==
  /\ mem[i].open
  /\ disk' = Partial
  /\ mem' = [k \in Inst |-> [open |-> FALSE, entries |-> <<>>]]
  /\ returned' = NoReturned
  /\ thrown' = "none"
  /\ UNCHANGED <<files, ledger, flowVars, verVars, lastRun, merkle, create>>

\* fs.readFileSync(entryPath): throws for a file that exists but cannot be read
readFileSync(fs, name) == [throws |-> fs[name] = Unreadable, content |-> fs[name]]

\* the finding validateChain pushes for entry k's file, in a sequence of 0 or 1
contentFindings(entries, fs, k) ==
  LET entry == entries[k]
  IN IF fs[entry.name] = NoFile
       THEN <<[kind |-> "missing", index |-> -1, name |-> entry.name]>>
     ELSE IF readFileSync(fs, entry.name).throws
       THEN <<[kind |-> "read", index |-> -1, name |-> entry.name]>>
     ELSE IF hashContent(readFileSync(fs, entry.name).content) # entry.entryHash
       THEN <<[kind |-> "content", index |-> -1, name |-> entry.name]>>
     ELSE <<>>

\* the finding for the link into entry k (k >= 2), in a sequence of 0 or 1
linkFindings(entries, k) ==
  IF entries[k].previousHash # entries[k - 1].entryHash
    THEN <<[kind |-> "link", index |-> k - 1, name |-> ""]>>
    ELSE <<>>

RECURSIVE Flatten(_)
Flatten(seqs) == IF Len(seqs) = 0 THEN <<>> ELSE Head(seqs) \o Flatten(Tail(seqs))

\* a validateChain that returns at its first finding
validateChain_shortCircuit(entries, fs) ==
  LET n == Len(entries)
      genesisErrors ==
        IF entries[1].previousHash # GENESIS_HASH
          THEN <<[kind |-> "genesis", index |-> 0, name |-> ""]>> ELSE <<>>
      linkErrors == Flatten([k \in 1..(n - 1) |-> linkFindings(entries, k + 1)])
      contentErrors == Flatten([k \in 1..n |-> contentFindings(entries, fs, k)])
      errors == genesisErrors \o linkErrors \o contentErrors
  IN IF n = 0 THEN [threw |-> FALSE, valid |-> TRUE, errors |-> <<>>]
     ELSE [threw |-> FALSE, valid |-> Len(errors) = 0,
           errors |-> IF Len(errors) = 0 THEN <<>> ELSE <<errors[1]>>]

\* a validateChain whose readFileSync is outside any try/catch
validateChain_noCatch(entries, fs) ==
  LET n == Len(entries)
      genesisErrors ==
        IF entries[1].previousHash # GENESIS_HASH
          THEN <<[kind |-> "genesis", index |-> 0, name |-> ""]>> ELSE <<>>
      linkErrors == Flatten([k \in 1..(n - 1) |-> linkFindings(entries, k + 1)])
      contentErrors == Flatten([k \in 1..n |-> contentFindings(entries, fs, k)])
      errors == genesisErrors \o linkErrors \o contentErrors
  IN IF n = 0 THEN [threw |-> FALSE, valid |-> TRUE, errors |-> <<>>]
     ELSE [threw |-> \E k \in 1..n : readFileSync(fs, entries[k].name).throws,
           valid |-> Len(errors) = 0, errors |-> errors]

\* validateChain: genesis, linkage and content findings, in the code's order;
\* threw = an exception leaves it (readFileSync is inside the try/catch)
validateChain(entries, fs) ==
  LET n == Len(entries)
      genesisErrors ==
        IF entries[1].previousHash # GENESIS_HASH
          THEN <<[kind |-> "genesis", index |-> 0, name |-> ""]>> ELSE <<>>
      linkErrors == Flatten([k \in 1..(n - 1) |-> linkFindings(entries, k + 1)])
      contentErrors == Flatten([k \in 1..n |-> contentFindings(entries, fs, k)])
      errors == genesisErrors \o linkErrors \o contentErrors
  IN IF n = 0 THEN [threw |-> FALSE, valid |-> TRUE, errors |-> <<>>]
     ELSE [threw |-> FALSE, valid |-> Len(errors) = 0, errors |-> errors]

\* a call of validateChain through object i
ValidateChain(i) ==
  /\ mem[i].open
  /\ IF validateChain(mem[i].entries, files).threw
       THEN thrown' = "validateChain threw" /\ UNCHANGED validation
       ELSE thrown' = "none" /\ validation' = validateChain(mem[i].entries, files)
  /\ UNCHANGED <<chainVars, ledger, rpc, syncResult, check, verVars, returned, lastRun, merkle, create>>

\* ------------------------------------------------- BlockchainSyncService
\* syncFromContract: the ledger answers (answered) or a call throws; a logbook
\* unknown to getLogbookNames and one with no entries both give entries = []
syncFromContract(answered) ==
  IF ~answered THEN [success |-> FALSE, entries |-> <<>>]
  ELSE [success |-> TRUE, entries |-> ledger]

\* --------------------------------------------------- LogbookReconstructor
\* checkLocalIntegrity without the placeholder test
checkLocalIntegrity_noPlaceholders(result, d) ==
  IF ~result.success \/ Len(result.entries) = 0
    THEN [needsReconstruction |-> FALSE, contractEntries |-> <<>>]
  ELSE IF ~logbookExists(d) \/ Len(d.entries) = 0
    THEN [needsReconstruction |-> TRUE, contractEntries |-> result.entries]
  ELSE [needsReconstruction |->
          \/ Len(d.entries) # Len(result.entries)
          \/ d.entries[Len(d.entries)].entryHash
               # result.entries[Len(result.entries)].entryHash,
        contractEntries |-> result.entries]

\* checkLocalIntegrity looking for the sentinel in the last entry only
checkLocalIntegrity_lastOnly(result, d) ==
  IF ~result.success \/ Len(result.entries) = 0
    THEN [needsReconstruction |-> FALSE, contractEntries |-> <<>>]
  ELSE IF ~logbookExists(d)
    THEN [needsReconstruction |-> TRUE, contractEntries |-> result.entries]
  ELSE LET localChain == loadOrCreateChain(d).data
       IN IF Len(localChain) = 0
            THEN [needsReconstruction |-> TRUE, contractEntries |-> result.entries]
          ELSE [needsReconstruction |->
                  \/ localChain[Len(localChain)].txHash = RECONSTRUCTED
                  \/ Len(localChain) # Len(result.entries)
                  \/ localChain[Len(localChain)].entryHash
                       # result.entries[Len(result.entries)].entryHash,
                contractEntries |-> result.entries]

\* checkLocalIntegrity, after syncFromContract has returned result
checkLocalIntegrity(result, d) ==
  IF ~result.success \/ Len(result.entries) = 0
    THEN [needsReconstruction |-> FALSE, contractEntries |-> <<>>]
  ELSE IF ~logbookExists(d)
    THEN [needsReconstruction |-> TRUE, contractEntries |-> result.entries]
  ELSE LET localChain == loadOrCreateChain(d).data
       IN IF Len(localChain) = 0
            THEN [needsReconstruction |-> TRUE, contractEntries |-> result.entries]
          ELSE IF \E k \in 1..Len(localChain) : localChain[k].txHash = RECONSTRUCTED
            THEN [needsReconstruction |-> TRUE, contractEntries |-> result.entries]
          ELSE [needsReconstruction |->
                  \/ Len(localChain) # Len(result.entries)
                  \/ localChain[Len(localChain)].entryHash
                       # result.entries[Len(result.entries)].entryHash,
                contractEntries |-> result.entries]

\* entries.map committing each entry to its own hash only
chainEntries_singleLeaf(entries) ==
  [i \in 1..Len(entries) |->
     [name |-> entries[i].name,
      entryHash |-> entries[i].entryHash,
      previousHash |-> entries[i].previousHash,
      txHash |-> RECONSTRUCTED,
      timestamp |-> entries[i].timestamp,
      blockNumber |-> entries[i].blockNumber,
      merkleRoot |-> getMerkleRoot(createMerkleTree(<<entries[i].entryHash>>))]]

\* entries.map re-deriving previousHash from the preceding entry
chainEntries_relinked(entries) ==
  [i \in 1..Len(entries) |->
     [name |-> entries[i].name,
      entryHash |-> entries[i].entryHash,
      previousHash |-> IF i = 1 THEN GENESIS_HASH ELSE entries[i - 1].entryHash,
      txHash |-> RECONSTRUCTED,
      timestamp |-> entries[i].timestamp,
      blockNumber |-> entries[i].blockNumber,
      merkleRoot |-> getMerkleRoot(createMerkleTree(
                       [k \in 1..i |-> entries[k].entryHash]))]]

\* the entries.map of reconstruct: ledger fields, sentinel txHash, running root
chainEntries(entries) ==
  [i \in 1..Len(entries) |->
     [name |-> entries[i].name,
      entryHash |-> entries[i].entryHash,
      previousHash |-> entries[i].previousHash,
      txHash |-> RECONSTRUCTED,
      timestamp |-> entries[i].timestamp,
      blockNumber |-> entries[i].blockNumber,
      merkleRoot |-> getMerkleRoot(createMerkleTree(
                       [k \in 1..i |-> entries[k].entryHash]))]]

placeholder(entry) == <<1, entry.timestamp, entry.blockNumber>> \o entry.entryHash

\* a loop that writes the placeholder text for every ledger entry
RECURSIVE writePlaceholders_overwrite(_, _)
writePlaceholders_overwrite(entries, fs) ==
  IF Len(entries) = 0 THEN fs
  ELSE LET entry == Head(entries)
           next == [fs EXCEPT ![entry.name] = placeholder(entry)]
       IN writePlaceholders_overwrite(Tail(entries), next)

\* the loop that writes a placeholder entry.txt where none exists
RECURSIVE writePlaceholders(_, _)
writePlaceholders(entries, fs) ==
  IF Len(entries) = 0 THEN fs
  ELSE LET entry == Head(entries)
           next == IF fs[entry.name] = NoFile
                     THEN [fs EXCEPT ![entry.name] = placeholder(entry)]
                     ELSE fs
       IN writePlaceholders(Tail(entries), next)

\* saveFiles: entry.txt of the entry is written (also the user's "Replace
\* this file" of the placeholder text)
SaveFiles(name, content) ==
  /\ files' = [files EXCEPT ![name] = content]
  /\ lastRun' = NoRun(lastRun.on)
  /\ UNCHANGED <<disk, mem, ledger, flowVars, verVars, apiVars, merkle, create>>

\* reconstruct(): prompt answered, the ledger query is issued
RStart ==
  /\ rpc = "idle"
  /\ rpc' = "querying"
  /\ UNCHANGED <<disk, mem, files, ledger, syncResult, check, validation, verVars, apiVars, lastRun, merkle, create>>

\* checkLocalIntegrity opening the ChainManager before it looks at the result
RCheck_opensFirst(answered) ==
  /\ rpc = "querying"
  /\ syncResult' = syncFromContract(answered)
  /\ check' = checkLocalIntegrity(syncFromContract(answered), disk)
  /\ disk' = loadOrCreateChain(disk).disk
  /\ rpc' = "checked"
  /\ UNCHANGED <<mem, files, ledger, validation, verVars, apiVars, lastRun, merkle, create>>

\* the query returns (or throws) and checkLocalIntegrity finishes
RCheck(answered) ==
  /\ rpc = "querying"
  /\ syncResult' = syncFromContract(answered)
  /\ check' = checkLocalIntegrity(syncFromContract(answered), disk)
  /\ disk' = IF syncFromContract(answered).success
                 /\ Len(syncFromContract(answered).entries) > 0 /\ logbookExists(disk)
               THEN loadOrCreateChain(disk).disk ELSE disk
  /\ rpc' = "checked"
  /\ UNCHANGED <<mem, files, ledger, validation, verVars, apiVars, lastRun, merkle, create>>

\* reconstruct() rebuilding whenever the ledger returned entries
RDecide_ignoresCheck ==
  /\ rpc = "checked"
  /\ rpc' = IF Len(check.contractEntries) = 0 THEN "returned" ELSE "rebuilding"
  /\ UNCHANGED <<disk, mem, files, ledger, syncResult, check, validation, verVars, apiVars, lastRun, merkle, create>>

\* reconstruct(): the two early returns, or on to the rebuild
RDecide ==
  /\ rpc = "checked"
  /\ rpc' = IF ~check.needsReconstruction THEN "returned"
            ELSE IF Len(check.contractEntries) = 0 THEN "returned"
            ELSE "rebuilding"
  /\ UNCHANGED <<disk, mem, files, ledger, syncResult, check, validation, verVars, apiVars, lastRun, merkle, create>>

\* a rebuild that appends the ledger's entries to the chain it finds
RRebuild_appends ==
  /\ rpc = "rebuilding"
  /\ disk' = Doc(loadOrCreateChain(disk).data \o chainEntries(check.contractEntries))
  /\ rpc' = "chainWritten"
  /\ UNCHANGED <<mem, files, ledger, syncResult, check, validation, verVars, apiVars, lastRun, merkle, create>>

\* new ChainManager, entries.map, chainManager.reconstruct(chainEntries)
RRebuild ==
  /\ rpc = "rebuilding"
  /\ disk' = Doc(chainEntries(check.contractEntries))
  /\ rpc' = "chainWritten"
  /\ UNCHANGED <<mem, files, ledger, syncResult, check, validation, verVars, apiVars, lastRun, merkle, create>>

\* placeholder files written, the rebuilt chain not validated
RFinish_noValidation ==
  /\ rpc = "chainWritten"
  /\ files' = writePlaceholders(check.contractEntries, files)
  /\ rpc' = "rebuilt"
  /\ UNCHANGED <<disk, mem, ledger, syncResult, check, validation, verVars, apiVars, lastRun, merkle, create>>

\* placeholder files, then validateChain on the rebuilt chain
RFinish ==
  /\ rpc = "chainWritten"
  /\ files' = writePlaceholders(check.contractEntries, files)
  /\ validation' = validateChain(chainEntries(check.contractEntries),
                                 writePlaceholders(check.contractEntries, files))
  /\ rpc' = "rebuilt"
  /\ lastRun' = IF lastRun.on
                  THEN [on |-> TRUE,
                        n |-> IF lastRun.n < MaxRuns THEN lastRun.n + 1 ELSE lastRun.n,
                        disk |-> disk,
                        files |-> writePlaceholders(check.contractEntries, files)]
                  ELSE lastRun
  /\ UNCHANGED <<disk, mem, ledger, syncResult, check, verVars, apiVars, merkle, create>>

\* back at the menu: the run's locals are gone
RReturn ==
  /\ rpc \in {"returned", "rebuilt"}
  /\ rpc' = "idle"
  /\ syncResult' = NoSync
  /\ check' = NoCheck
  /\ validation' = NoValidation
  /\ UNCHANGED <<disk, mem, files, ledger, verVars, apiVars, lastRun, merkle, create>>

\* --------------------------------------------------------- LogbookCreator
\* promptEntryName: the count prefix makes the name of the next position;
\* it throws when that entry directory exists
promptEntryName(entries, fs) ==
  LET finalName == IF Len(entries) = 0 THEN "n1" ELSE "n2"
  IN [throws |-> fs[finalName] # NoFile, name |-> finalName]

\* the contract's rule for anchorEntry: previousHash is the hash of the
\* ledger's last entry, or the genesis hash for a logbook without entries
contractAccepts(onChain, previousHash) ==
  previousHash = IF Len(onChain) = 0 THEN GENESIS_HASH
                 ELSE onChain[Len(onChain)].entryHash

\* create() up to the confirmation: name, content, confirm
CPrompt(i, content, confirmed) ==
  /\ create.pc = "idle"
  /\ mem[i].open
  /\ Len(mem[i].entries) < Cardinality(Names)
  /\ IF promptEntryName(mem[i].entries, files).throws
       THEN /\ thrown' = "Entry with this name already exists"
            /\ UNCHANGED create
       ELSE /\ thrown' = "none"
            /\ create' = IF confirmed
                           THEN [NoCreate EXCEPT !.pc = "confirmed",
                                   !.name = promptEntryName(mem[i].entries, files).name,
                                   !.content = content]
                           ELSE create
  /\ UNCHANGED <<chainVars, ledger, flowVars, verVars, returned, lastRun, merkle>>

\* saveAndAnchor up to the call of anchorEntry: hashes and previousHash
CSend(i) ==
  /\ create.pc = "confirmed"
  /\ mem[i].open
  /\ create' = [create EXCEPT
                  !.pc = "anchoring",
                  !.entryHash = hashContent(create.content),
                  !.previousHash = IF Len(mem[i].entries) > 0
                                     THEN mem[i].entries[Len(mem[i].entries)].entryHash
                                     ELSE GENESIS_HASH]
  /\ UNCHANGED <<chainVars, ledger, flowVars, verVars, apiVars, lastRun, merkle>>

\* anchorEntry going on to the local append although the anchor failed
CAnchor_optimistic(mined) ==
  /\ create.pc = "anchoring"
  /\ mined => Len(ledger) < MaxAnchored
  /\ IF /\ mined
        /\ CanonicalHash(create.entryHash)
        /\ CanonicalHash(create.previousHash)
        /\ contractAccepts(ledger, create.previousHash)
       THEN /\ ledger' = Append(ledger,
                            [name |-> create.name, entryHash |-> create.entryHash,
                             previousHash |-> create.previousHash,
                             timestamp |-> 2, blockNumber |-> 3])
            /\ create' = [create EXCEPT !.pc = "anchored", !.txHash = "0xt1"]
            /\ thrown' = "none"
       ELSE /\ create' = [create EXCEPT !.pc = "anchored", !.txHash = "0xt1"]
            /\ thrown' = "none"
            /\ UNCHANGED ledger
  /\ UNCHANGED <<chainVars, flowVars, verVars, returned, lastRun, merkle>>

\* anchorEntry returns: format checks, then the transaction is mined (the
\* contract took the entry) or the call throws "Anchor failed"
CAnchor(mined) ==
  /\ create.pc = "anchoring"
  /\ mined => Len(ledger) < MaxAnchored
  /\ IF /\ mined
        /\ CanonicalHash(create.entryHash)
        /\ CanonicalHash(create.previousHash)
        /\ contractAccepts(ledger, create.previousHash)
       THEN /\ ledger' = Append(ledger,
                            [name |-> create.name, entryHash |-> create.entryHash,
                             previousHash |-> create.previousHash,
                             timestamp |-> 2, blockNumber |-> 3])
            /\ create' = [create EXCEPT !.pc = "anchored", !.txHash = "0xt1"]
            /\ thrown' = "none"
       ELSE /\ create' = NoCreate
            /\ thrown' = "Anchor failed"
            /\ UNCHANGED ledger
  /\ UNCHANGED <<chainVars, flowVars, verVars, returned, lastRun, merkle>>

\* the rest of saveAndAnchor: the receipt, addEntry (its save may throw),
\* saveFiles (its write of entry.txt may throw)
CRecord(i, receipt, saved, written) ==
  /\ create.pc = "anchored"
  /\ mem[i].open
  /\ Len(mem[i].entries) < MaxLen
  /\ create' = NoCreate
  /\ IF ~receipt
       THEN /\ thrown' = "Cannot read properties of null"
            /\ UNCHANGED <<disk, mem, files>>
       ELSE LET entries == Append(mem[i].entries,
                             newEntry(mem[i].entries, create.name, create.entryHash,
                                      create.txHash, 1, 1))
            IN /\ mem' = [mem EXCEPT ![i].entries = entries]
               /\ IF ~saved
                    THEN /\ thrown' = "Failed to save chain data"
                         /\ UNCHANGED <<disk, files>>
                    ELSE /\ disk' = Doc(entries)
                         /\ IF written
                              THEN /\ files' = [files EXCEPT ![create.name] = create.content]
                                   /\ thrown' = "none"
                              ELSE /\ thrown' = "entry.txt not written"
                                   /\ UNCHANGED files
  /\ UNCHANGED <<ledger, flowVars, verVars, returned, lastRun, merkle>>

\* -------------------------------------------------------- LogbookExporter
\* the map callback of export throws when an entry.txt is missing or unreadable
exportThrows(entries, fs) ==
  \E k \in 1..Len(entries) : fs[entries[k].name] \in {NoFile, Unreadable}

\* exportData.entries written last entry first
exportData_reversed(entries, fs) ==
  [k \in 1..Len(entries) |->
     LET entry == entries[Len(entries) + 1 - k]
     IN [index |-> k - 1, name |-> entry.name, content |-> fs[entry.name],
         entryHash |-> entry.entryHash,
         previousHash |-> IF entry.previousHash = <<>> THEN GENESIS_HASH
                          ELSE entry.previousHash,
         txHash |-> entry.txHash]]

\* exportData.entries: the fields of metadata.json the verifier reads
exportData(entries, fs) ==
  [k \in 1..Len(entries) |->
     LET entry == entries[k]
     IN [index |-> k - 1, name |-> entry.name, content |-> fs[entry.name],
         entryHash |-> entry.entryHash,
         previousHash |-> IF entry.previousHash = <<>> THEN GENESIS_HASH
                          ELSE entry.previousHash,
         txHash |-> entry.txHash]]

\* export(), and the archive handed to verify(): nothing to export, the
\* prompt declined, an entry file missing, or metadata.json written
Export(i, shouldExport) ==
  /\ mem[i].open
  /\ vpc = "off"
  /\ IF Len(mem[i].entries) = 0 \/ ~shouldExport
       THEN /\ thrown' = "none"
            /\ UNCHANGED <<bundle, vpc>>
       ELSE IF exportThrows(mem[i].entries, files)
         THEN /\ thrown' = "Entry file not found"
              /\ UNCHANGED <<bundle, vpc>>
         ELSE /\ bundle' = exportData(mem[i].entries, files)
              /\ vpc' = "start"
              /\ thrown' = "none"
  /\ UNCHANGED <<chainVars, ledger, flowVars, returned, lastRun, merkle, create,
                 allValid, hasPlaceholders, report, verdict>>

\* -------------------------------------------------------- LogbookVerifier
PLACEHOLDER_TEXT == <<1, 2, 3>> \o hashContent(Text(1))

\* entry.content.includes("PLACEHOLDER - Original content not available")
isPlaceholder(entry) == entry.content[1] = 1

\* step 1, one line per entry
contentFinding(entry) ==
  IF isPlaceholder(entry) THEN "PLACEHOLDER"
  ELSE IF hashContent(entry.content) = entry.entryHash THEN "VALID"
  ELSE "HASH MISMATCH"

\* step 2 comparing every entry with its predecessor, placeholder or not
linkFinding_noSkip(entries, i) ==
  IF isPlaceholder(entries[i]) THEN "SKIPPED"
  ELSE IF i = 1
    THEN IF entries[i].previousHash = GENESIS_HASH THEN "LINKED" ELSE "BROKEN LINK"
  ELSE IF entries[i].previousHash = entries[i - 1].entryHash THEN "LINKED"
  ELSE "BROKEN LINK"

\* step 2, one line per entry
linkFinding(entries, i) ==
  IF isPlaceholder(entries[i]) THEN "SKIPPED"
  ELSE IF i = 1
    THEN IF entries[i].previousHash = GENESIS_HASH THEN "LINKED" ELSE "BROKEN LINK"
  ELSE IF isPlaceholder(entries[i - 1]) THEN "SKIPPED"
  ELSE IF entries[i].previousHash = entries[i - 1].entryHash THEN "LINKED"
  ELSE "BROKEN LINK"

\* step 3 comparing the entry hashes only
chainFinding_hashOnly(local, onChain) ==
  IF local.entryHash = onChain.entryHash THEN "MATCHES CONTRACT" ELSE "MISMATCH"

\* step 3, one line per entry when the counts agree
chainFinding(local, onChain) ==
  IF /\ local.entryHash = onChain.entryHash
     /\ local.previousHash = onChain.previousHash
     /\ local.name = onChain.name
    THEN "MATCHES CONTRACT" ELSE "MISMATCH"

\* steps 1 and 2, up to the call of getAllEntries
VLocal ==
  /\ vpc = "start"
  /\ LET content == [i \in 1..Len(bundle) |-> contentFinding(bundle[i])]
         link == [i \in 1..Len(bundle) |-> linkFinding(bundle, i)]
     IN /\ report' = [report EXCEPT !.content = content, !.link = link]
        /\ hasPlaceholders' = \E i \in 1..Len(bundle) : content[i] = "PLACEHOLDER"
        /\ allValid' = /\ \A i \in 1..Len(bundle) : content[i] # "HASH MISMATCH"
                       /\ \A i \in 1..Len(bundle) : link[i] # "BROKEN LINK"
  /\ vpc' = "getAllEntries"
  /\ UNCHANGED <<chainVars, ledger, flowVars, apiVars, lastRun, merkle, create, bundle, verdict>>

\* step 3: getAllEntries returns (reachable) or throws into the catch
VLedger(reachable) ==
  /\ vpc = "getAllEntries"
  /\ IF ~reachable
       THEN /\ report' = [report EXCEPT !.contract = "error"]
            /\ allValid' = FALSE
            /\ vpc' = "codeHash"
       ELSE /\ vpc' = "validateChain"
            /\ IF Len(ledger) # Len(bundle)
                 THEN /\ report' = [report EXCEPT !.count = "mismatch"]
                      /\ allValid' = FALSE
                 ELSE LET chain == [i \in 1..Len(bundle) |-> chainFinding(bundle[i], ledger[i])]
                      IN /\ report' = [report EXCEPT !.count = "match", !.chain = chain]
                         /\ allValid' = (allValid /\ \A i \in 1..Len(bundle) :
                                                        chain[i] = "MATCHES CONTRACT")
  /\ UNCHANGED <<chainVars, ledger, flowVars, apiVars, lastRun, merkle, create, bundle, hasPlaceholders, verdict>>

\* step 3: the contract's validateChain returns valid, broken, or throws
VValidate(answer) ==
  /\ vpc = "validateChain"
  /\ report' = [report EXCEPT !.contract = answer]
  /\ allValid' = (allValid /\ answer = "valid")
  /\ vpc' = "codeHash"
  /\ UNCHANGED <<chainVars, ledger, flowVars, apiVars, lastRun, merkle, create, bundle, hasPlaceholders, verdict>>

\* getPackageVersionHash() of the verifying build, another build's hash, and
\* <<>> for a bundle or proof file that carries none
currentCodeHash == hashContent(Text(2))

CodeHashes == {<<>>, currentCodeHash, hashContent(Text(3))}

ProofCodeHashes(n) == [1..n -> CodeHashes]

\* the header lines about metadata.codeHash
metaCodeFinding(codeHash) ==
  IF codeHash = <<>> THEN "NO CODE HASH"
  ELSE IF codeHash # currentCodeHash THEN "CODE VERSION MISMATCH"
  ELSE "MATCHES"

\* step 4, one line per proof.txt
proofCodeFinding(entryCodeHash) ==
  IF entryCodeHash = <<>> THEN "NO CODE HASH"
  ELSE IF entryCodeHash # currentCodeHash THEN "CODE VERSION"
  ELSE "CODE VERSION OK"

codeHashInconsistent(proofs) ==
  \E i \in 1..Len(proofs) : proofCodeFinding(proofs[i]) = "CODE VERSION"

\* the banner of a verifier that fails a bundle of another code version
banner_strict(placeholders, valid, inconsistent) ==
  IF placeholders THEN "RECONSTRUCTED LOGBOOK"
  ELSE IF valid /\ ~inconsistent THEN "VERIFICATION PASSED"
  ELSE "VERIFICATION FAILED"

\* the final banner
banner(placeholders, valid, inconsistent) ==
  IF placeholders THEN "RECONSTRUCTED LOGBOOK"
  ELSE IF valid THEN "VERIFICATION PASSED"
  ELSE "VERIFICATION FAILED"

\* the code-hash lines of the header, step 4 (advisory) and the final banner
VVerdict(metaCodeHash, proofs) ==
  /\ vpc = "codeHash"
  /\ report' = [report EXCEPT !.code =
                  [meta |-> metaCodeFinding(metaCodeHash),
                   proof |-> [i \in 1..Len(proofs) |-> proofCodeFinding(proofs[i])],
                   inconsistent |-> codeHashInconsistent(proofs)]]
  /\ verdict' = banner(hasPlaceholders, allValid, codeHashInconsistent(proofs))
  /\ vpc' = "done"
  /\ UNCHANGED <<chainVars, ledger, flowVars, apiVars, lastRun, merkle, create, bundle, allValid, hasPlaceholders>>

\* ------------------------------------------------------- specifications
NoReport ==
  [content |-> <<>>, link |-> <<>>, count |-> "none", chain |-> <<>>, contract |-> "none",
   code |-> [meta |-> "none", proof |-> <<>>, inconsistent |-> FALSE]]

InitLocal ==
  /\ disk = [state |-> "absent", logbookName |-> LOGBOOK, entries |-> <<>>]
  /\ mem = [i \in Inst |-> [open |-> FALSE, entries |-> <<>>]]
  /\ files = [n \in Names |-> NoFile]
  /\ rpc = "idle"
  /\ syncResult = NoSync
  /\ check = NoCheck
  /\ validation = NoValidation
  /\ returned = NoReturned
  /\ thrown = "none"

VerifierOff ==
  /\ bundle = <<>>
  /\ vpc = "off"
  /\ allValid = TRUE
  /\ hasPlaceholders = FALSE
  /\ report = NoReport
  /\ verdict = "none"

HistoryOff == lastRun = NoRun(FALSE) /\ merkle = NoMerkle /\ create = NoCreate

InitChain == InitLocal /\ VerifierOff /\ HistoryOff /\ ledger = <<>>

NextAppend ==
  \/ \E i \in Inst : Open(i)
  \/ \E i \in Inst, n \in Names, h \in EntryHashes, t \in TxHashes :
       AddEntry(i, n, h, t, 1, 1)

SpecAppend == InitChain /\ [][NextAppend]_vars

Init == InitLocal /\ VerifierOff /\ HistoryOff /\ ledger \in Ledgers

Next ==
  \/ \E i \in User : Open(i)
  \/ \E i \in User, h \in EntryHashes, t \in TxHashes :
       AddEntry(i, "n1", h, t, 1, 1)
  \/ \E i \in User : Clear(i)
  \/ RStart
  \/ \E answered \in BOOLEAN : RCheck(answered)
  \/ RDecide
  \/ RRebuild
  \/ RFinish
  \/ RReturn

Spec == Init /\ [][Next]_vars

\* bundles and the ledger's view of them
Contents == {Text(1), Text(2), PLACEHOLDER_TEXT}

BundleEntries(i) ==
  [index : {i - 1}, name : {IF i % 2 = 1 THEN "n1" ELSE "n2"}, content : Contents,
   entryHash : EntryHashes, previousHash : {GENESIS_HASH, hashContent(Text(1))}]

RECURSIVE BundlesOfLen(_)
BundlesOfLen(n) ==
  IF n = 0 THEN {<<>>}
  ELSE {Append(b, e) : b \in BundlesOfLen(n - 1), e \in BundleEntries(n)}

Bundles == UNION {BundlesOfLen(n) : n \in 0..MaxBundle}

Anchored(b) ==
  [i \in 1..Len(b) |->
     [name |-> b[i].name, entryHash |-> b[i].entryHash, previousHash |-> b[i].previousHash,
      timestamp |-> 2, blockNumber |-> 3]]

LedgerViews(b) ==
  LET a == Anchored(b)
  IN {a}
     \cup {[a EXCEPT ![i].name = "n3"] : i \in 1..Len(a)}
     \cup {[a EXCEPT ![i].entryHash = hashContent(Text(3))] : i \in 1..Len(a)}
     \cup {[a EXCEPT ![i].previousHash = hashContent(Text(3))] : i \in 1..Len(a)}
     \cup {SubSeq(a, 1, Len(a) - 1) : i \in 1..Len(a)}

InitVerify ==
  /\ InitLocal
  /\ HistoryOff
  /\ bundle \in Bundles
  /\ ledger \in LedgerViews(bundle)
  /\ vpc = "start"
  /\ allValid = TRUE
  /\ hasPlaceholders = FALSE
  /\ report = NoReport
  /\ verdict = "none"

NextVerify ==
  \/ VLocal
  \/ \E reachable \in BOOLEAN : VLedger(reachable)
  \/ \E answer \in {"valid", "broken", "error"} : VValidate(answer)
  \/ VVerdict(currentCodeHash, [i \in 1..Len(bundle) |-> currentCodeHash])

SpecVerify == InitVerify /\ [][NextVerify]_vars

\* bundles of one content hash, written by this build or another one, with
\* or without code hashes
InitCode ==
  /\ InitLocal
  /\ HistoryOff
  /\ bundle \in {b \in Bundles : \A i \in 1..Len(b) :
                   /\ b[i].entryHash = hashContent(Text(1))
                   /\ b[i].previousHash = IF i = 1 THEN GENESIS_HASH
                                          ELSE hashContent(Text(1))}
  /\ ledger \in LedgerViews(bundle)
  /\ vpc = "start"
  /\ allValid = TRUE
  /\ hasPlaceholders = FALSE
  /\ report = NoReport
  /\ verdict = "none"

NextCode ==
  \/ VLocal
  \/ \E reachable \in BOOLEAN : VLedger(reachable)
  \/ \E answer \in {"valid", "broken", "error"} : VValidate(answer)
  \/ \E metaCodeHash \in CodeHashes, proofs \in ProofCodeHashes(Len(bundle)) :
       VVerdict(metaCodeHash, proofs)

SpecCode == InitCode /\ [][NextCode]_vars

\* one process: the menu runs one operation at a time, and the synchronous
\* part of reconstruct() runs to completion once the query has returned
NextMenu ==
  \/ rpc = "idle" /\ \E i \in User : Open(i)
  \/ rpc = "idle" /\ \E i \in User, h \in EntryHashes, t \in TxHashes :
                        AddEntry(i, "n1", h, t, 1, 1)
  \/ rpc = "idle" /\ \E i \in User : Clear(i)
  \/ RStart
  \/ \E answered \in BOOLEAN : RCheck(answered)
  \/ RDecide
  \/ RRebuild
  \/ RFinish
  \/ RReturn

\* ledgers as a contract that enforces the linkage holds them
LinkedLedgers ==
  {l \in Ledgers :
     \A k \in 1..Len(l) :
       /\ l[k].name = (IF k % 2 = 1 THEN "n1" ELSE "n2")
       /\ l[k].previousHash = (IF k = 1 THEN GENESIS_HASH ELSE l[k - 1].entryHash)}

InitMenu == InitLocal /\ VerifierOff /\ HistoryOff /\ ledger \in LinkedLedgers

FairSpec ==
  InitMenu /\ [][NextMenu]_vars /\ WF_vars(RDecide) /\ WF_vars(RRebuild) /\ WF_vars(RFinish)

\* the menu with the entry files written between the runs of reconstruct(),
\* keeping the history of the completed rebuilds
GenuineContents == {Text(1), Text(2)}

InitFiles ==
  /\ InitLocal
  /\ VerifierOff
  /\ lastRun = NoRun(TRUE)
  /\ merkle = NoMerkle
  /\ create = NoCreate
  /\ ledger \in LinkedLedgers

NextFiles ==
  \/ NextMenu
  \/ rpc = "idle" /\ \E n \in Names, c \in GenuineContents : SaveFiles(n, c)

SpecFiles == InitFiles /\ [][NextFiles]_vars

\* one ChainManager object: every operation of the class with well-formed
\* and malformed arguments, and a process death during a save
Replacement ==
  <<[name |-> "n1", entryHash |-> hashContent(Text(2)), previousHash |-> GENESIS_HASH,
     txHash |-> RECONSTRUCTED, timestamp |-> 2, blockNumber |-> 3,
     merkleRoot |-> getMerkleRoot(createMerkleTree(<<hashContent(Text(2))>>))],
    [name |-> "n2", entryHash |-> hashContent(Text(1)), previousHash |-> hashContent(Text(1)),
     txHash |-> RECONSTRUCTED, timestamp |-> 2, blockNumber |-> 3,
     merkleRoot |-> GENESIS_HASH]>>

\* what a caller may pass to reconstruct: also a sequence that is not linked
\* and whose last merkleRoot is not the root of its entryHashes
ReplaceInputs == {SubSeq(Replacement, 1, n) : n \in 0..Len(Replacement)}

NextStore ==
  \/ \E i \in User : Open(i)
  \/ \E i \in User, h \in EntryHashInputs, t \in TxHashes \cup BadTxHashes,
         ts \in NumberInputs, bn \in NumberInputs :
       \/ AddEntry(i, "n1", h, t, ts, bn)
       \/ AddEntryRejected(i, "n1", h, t, ts, bn)
  \/ \E i \in User : Clear(i)
  \/ \E i \in User, entries \in ReplaceInputs : Reconstruct(i, entries)
  \/ \E i \in User : GetEntries(i)
  \/ \E i \in User : GetLastEntry(i)
  \/ \E i \in User : ValidateChain(i)
  \/ \E i \in User : CrashInSave(i)

SpecStore == InitChain /\ [][NextStore]_vars

\* one ChainManager object and a caller that works on what getEntries returned
NextAlias ==
  \/ \E i \in User : Open(i)
  \/ \E i \in User, h \in EntryHashes, t \in TxHashes : AddEntry(i, "n1", h, t, 1, 1)
  \/ \E i \in User : Clear(i)
  \/ \E i \in User : GetEntries(i)
  \/ CallerReverses
  \/ CallerTruncates
  \/ \E j \in 1..MaxLen : CallerAssigns(j, NotHex(1))

SpecAlias == InitChain /\ [][NextAlias]_vars

\* validateChain on the chains a chain.json may hold and the states the entry
\* files may be in
FileStates == {NoFile, Text(1), Text(2), Unreadable}

StoredEntries(k) ==
  [name : {IF k % 2 = 1 THEN "n1" ELSE "n2"}, entryHash : EntryHashes,
   previousHash : {GENESIS_HASH} \cup EntryHashes,
   txHash : TxHashes, timestamp : {1}, blockNumber : {1}, merkleRoot : {GENESIS_HASH}]

RECURSIVE StoredOfLen(_)
StoredOfLen(n) ==
  IF n = 0 THEN {<<>>}
  ELSE {Append(c, e) : c \in StoredOfLen(n - 1), e \in StoredEntries(n)}

StoredChains == UNION {StoredOfLen(n) : n \in 0..MaxLen}

InitValidate ==
  /\ disk \in {Doc(c) : c \in StoredChains}
  /\ files \in [Names -> FileStates]
  /\ mem = [i \in Inst |-> [open |-> FALSE, entries |-> <<>>]]
  /\ rpc = "idle"
  /\ syncResult = NoSync
  /\ check = NoCheck
  /\ validation = NoValidation
  /\ returned = NoReturned
  /\ thrown = "none"
  /\ VerifierOff
  /\ HistoryOff
  /\ ledger = <<>>

NextValidate ==
  \/ \E i \in User : Open(i)
  \/ \E i \in User : ValidateChain(i)

SpecValidate == InitValidate /\ [][NextValidate]_vars

\* a ChainManager working on a logbook and a second one opened on it, from
\* every kind of chain.json the constructor may find
Absent == [state |-> "absent", logbookName |-> LOGBOOK, entries |-> <<>>]

DiskInputs == {Absent, Partial, Invalid} \cup {Doc(c) : c \in ReplaceInputs}

InitOpen ==
  /\ disk \in DiskInputs
  /\ files = [n \in Names |-> NoFile]
  /\ mem = [i \in Inst |-> [open |-> FALSE, entries |-> <<>>]]
  /\ rpc = "idle"
  /\ syncResult = NoSync
  /\ check = NoCheck
  /\ validation = NoValidation
  /\ returned = NoReturned
  /\ thrown = "none"
  /\ VerifierOff
  /\ HistoryOff
  /\ ledger = <<>>

NextOpen ==
  \/ \E i \in Inst : Open(i)
  \/ \E i \in User, h \in EntryHashes, t \in TxHashes : AddEntry(i, "n1", h, t, 1, 1)
  \/ \E i \in User : Clear(i)
  \/ \E i \in User, entries \in ReplaceInputs : Reconstruct(i, entries)
  \/ \E i \in User : CrashInSave(i)

SpecOpen == InitOpen /\ [][NextOpen]_vars

\* chains that were anchored, among them one whose content is the placeholder
\* text itself, and chain.json documents edited by hand
ExportedEntries(k) ==
  [name : {IF k % 2 = 1 THEN "n1" ELSE "n2"},
   entryHash : {hashContent(Text(1)), hashContent(PLACEHOLDER_TEXT)},
   previousHash : {GENESIS_HASH, hashContent(Text(1)), <<>>},
   txHash : TxHashes, timestamp : {1}, blockNumber : {1}, merkleRoot : {GENESIS_HASH}]

RECURSIVE ExportedOfLen(_)
ExportedOfLen(n) ==
  IF n = 0 THEN {<<>>}
  ELSE {Append(c, e) : c \in ExportedOfLen(n - 1), e \in ExportedEntries(n)}

ExportedChains == UNION {ExportedOfLen(n) : n \in 0..MaxBundle}

ExportFiles == {NoFile, Text(1), Text(2), PLACEHOLDER_TEXT, Unreadable}

\* the ledger holding the chain, holding another hash at the last index, or
\* holding one entry less
ExportLedgers(c) ==
  LET a == Anchored(c)
  IN {a} \cup {[a EXCEPT ![i].entryHash = hashContent(Text(3))] : i \in {Len(a)} \ {0}}
         \cup {SubSeq(a, 1, Len(a) - 1)}

InitExport ==
  /\ disk \in {Doc(c) : c \in ExportedChains}
  /\ files \in [Names -> ExportFiles]
  /\ ledger \in ExportLedgers(disk.entries)
  /\ mem = [i \in Inst |-> [open |-> FALSE, entries |-> <<>>]]
  /\ rpc = "idle"
  /\ syncResult = NoSync
  /\ check = NoCheck
  /\ validation = NoValidation
  /\ returned = NoReturned
  /\ thrown = "none"
  /\ VerifierOff
  /\ HistoryOff

NextExport ==
  \/ \E i \in User : Open(i)
  \/ \E i \in User, shouldExport \in BOOLEAN : Export(i, shouldExport)
  \/ VLocal
  \/ \E reachable \in BOOLEAN : VLedger(reachable)
  \/ \E answer \in {"valid", "broken", "error"} : VValidate(answer)
  \/ VVerdict(currentCodeHash, [i \in 1..Len(bundle) |-> currentCodeHash])

SpecExport == InitExport /\ [][NextExport]_vars

\* leaf lists of every length up to MaxLeaves, equal leaves among them, and a
\* leaf to prove that is in the list or is not
LeafValues == {hashContent(Text(1)), hashContent(Text(2)), hashContent(Text(3))}

LeafLists == UNION {[1..n -> LeafValues] : n \in 1..MaxLeaves}

InitMerkle ==
  /\ InitLocal
  /\ VerifierOff
  /\ lastRun = NoRun(FALSE)
  /\ create = NoCreate
  /\ ledger = <<>>
  /\ \E leaves \in LeafLists, leaf \in LeafValues :
       merkle = [NoMerkle EXCEPT !.pc = "leaves", !.leaves = leaves, !.leaf = leaf]

NextMerkle == MCreateTree \/ MGetProof \/ MVerify

SpecMerkle == InitMerkle /\ [][NextMerkle]_vars

\* the menu of one process: an entry is created, or the logbook reconstructed,
\* one after the other, against a ledger that enforces the linkage
InitCreate == InitLocal /\ VerifierOff /\ HistoryOff /\ ledger \in LinkedLedgers

NextCreate ==
  \/ rpc = "idle" /\ create.pc = "idle" /\ \E i \in User : Open(i)
  \/ rpc = "idle" /\ \E i \in User, content \in GenuineContents, confirmed \in BOOLEAN :
                        CPrompt(i, content, confirmed)
  \/ \E i \in User : CSend(i)
  \/ \E mined \in BOOLEAN : CAnchor(mined)
  \/ \E i \in User, receipt \in BOOLEAN, saved \in BOOLEAN, written \in BOOLEAN :
       CRecord(i, receipt, saved, written)
  \/ create.pc = "idle" /\ RStart
  \/ \E answered \in BOOLEAN : RCheck(answered)
  \/ RDecide
  \/ RRebuild
  \/ RFinish
  \/ RReturn

SpecCreate == InitCreate /\ [][NextCreate]_vars

\* the creation flow on a ChainManager that other callers hold too: timers or
\* other flows call addEntry on it while an anchor call is pending
NextShared ==
  \/ create.pc = "idle" /\ \E i \in User : Open(i)
  \/ \E i \in User, content \in GenuineContents, confirmed \in BOOLEAN :
       CPrompt(i, content, confirmed)
  \/ \E i \in User : CSend(i)
  \/ \E mined \in BOOLEAN : CAnchor(mined)
  \/ \E i \in User, receipt \in BOOLEAN, saved \in BOOLEAN, written \in BOOLEAN :
       CRecord(i, receipt, saved, written)
  \/ \E i \in User, h \in EntryHashes, t \in TxHashes : AddEntry(i, "n1", h, t, 1, 1)

SpecShared == InitCreate /\ [][NextShared]_vars

\* the menu with the creation and reconstruction flows, and the user putting
\* content files back between them
NextRestore ==
  \/ NextCreate
  \/ rpc = "idle" /\ create.pc = "idle" /\
       \E n \in Names, c \in GenuineContents : SaveFiles(n, c)

SpecRestore == InitCreate /\ [][NextRestore]_vars

\* ------------------------------------------------------------- properties
\* C1: in every chain built from the empty chain by addEntry calls, the first
\* entry's previousHash is GENESIS_HASH and every later entry's previousHash
\* is the entryHash of the entry before it.
C1_Linkage ==
  LET Linked(entries) ==
        /\ Len(entries) > 0 => entries[1].previousHash = GENESIS_HASH
        /\ \A k \in 2..Len(entries) : entries[k].previousHash = entries[k - 1].entryHash
  IN Linked(disk.entries) /\ \A i \in Inst : Linked(mem[i].entries)

C1_Witness == \E i \in Inst : Len(mem[i].entries) >= 3

\* C2: every entry held in memory or persisted carries the Merkle root of the
\* entryHash list from the first entry up to and including itself.
C2_RunningRoot ==
  LET RootsOk(entries) ==
        \A k \in 1..Len(entries) :
          entries[k].merkleRoot =
            getMerkleRoot(createMerkleTree([j \in 1..k |-> entries[j].entryHash]))
  IN RootsOk(disk.entries) /\ \A i \in Inst : RootsOk(mem[i].entries)

C2_Witness ==
  /\ Len(disk.entries) >= 3
  /\ disk.entries[2].txHash = RECONSTRUCTED
  /\ disk.entries[3].txHash # RECONSTRUCTED

\* C3: appends to one logbook never destroy each other: every step keeps the
\* persisted entries as a prefix and adds at most one entry to them, also
\* when several ChainManager objects are open on the logbook.
C3_NoLostAppend ==
  [][/\ Len(disk'.entries) \in {Len(disk.entries), Len(disk.entries) + 1}
     /\ \A k \in 1..Len(disk.entries) : disk'.entries[k] = disk.entries[k]]_vars

\* C4: when the ledger query answers, checkLocalIntegrity reports
\* needsReconstruction = FALSE for an empty ledger and, for a non-empty one,
\* TRUE exactly when the logbook is absent, or empty, or holds a placeholder
\* entry, or differs from the ledger in length or in its last entryHash.
C4_IntegrityVerdict ==
  [][(rpc = "querying" /\ rpc' = "checked" /\ syncResult'.success) =>
       LET L == syncResult'.entries
           local == disk.entries
       IN check'.needsReconstruction =
            IF Len(L) = 0 THEN FALSE
            ELSE \/ disk.state = "absent"
                 \/ Len(local) = 0
                 \/ \E k \in 1..Len(local) : local[k].txHash = RECONSTRUCTED
                 \/ Len(local) # Len(L)
                 \/ local[Len(local)].entryHash # L[Len(L)].entryHash]_vars

C4_Witness ==
  /\ rpc = "checked"
  /\ syncResult.success
  /\ Len(syncResult.entries) > 0
  /\ ~check.needsReconstruction
  /\ Len(disk.entries) = Len(syncResult.entries)

\* C5: whenever the local entryHash sequence differs from a non-empty
\* ledger's entryHash sequence at any index, checkLocalIntegrity reports
\* needsReconstruction = TRUE.
C5_AnyDivergenceRebuilds ==
  [][(/\ rpc = "querying" /\ rpc' = "checked"
      /\ syncResult'.success
      /\ Len(syncResult'.entries) > 0
      /\ [k \in 1..Len(disk.entries) |-> disk.entries[k].entryHash]
           # [k \in 1..Len(syncResult'.entries) |-> syncResult'.entries[k].entryHash])
     => check'.needsReconstruction]_vars

\* C6: the rebuild persists exactly one entry per ledger entry, in ledger
\* order, with name, entryHash, previousHash, timestamp and blockNumber taken
\* unchanged from the ledger and txHash "reconstructed".
C6_RebuildCopiesLedger ==
  [][(rpc = "rebuilding" /\ rpc' = "chainWritten") =>
       LET L == syncResult.entries
       IN /\ Len(L) > 0
          /\ disk'.state = "ok"
          /\ Len(disk'.entries) = Len(L)
          /\ \A k \in 1..Len(L) :
               /\ disk'.entries[k].name = L[k].name
               /\ disk'.entries[k].entryHash = L[k].entryHash
               /\ disk'.entries[k].previousHash = L[k].previousHash
               /\ disk'.entries[k].timestamp = L[k].timestamp
               /\ disk'.entries[k].blockNumber = L[k].blockNumber
               /\ disk'.entries[k].txHash = RECONSTRUCTED]_vars

C6_Witness ==
  /\ rpc = "chainWritten"
  /\ Len(syncResult.entries) = 2
  /\ Len(disk.entries) = 2
  /\ disk.entries[2].txHash = RECONSTRUCTED
  /\ disk.entries[2].previousHash # disk.entries[1].entryHash

\* C7: after a rebuild from a consistent two-entry ledger into an empty
\* store, both entries have placeholder content and validateChain reports
\* valid = TRUE with two findings that mark the entries as skipped.
C7_PlaceholdersSkipped ==
  LET L == check.contractEntries
  IN (/\ rpc = "rebuilt"
      /\ Len(L) = 2
      /\ L[1].previousHash = GENESIS_HASH
      /\ L[2].previousHash = L[1].entryHash
      /\ L[1].name # L[2].name
      /\ files[L[1].name] = placeholder(L[1])
      /\ files[L[2].name] = placeholder(L[2]))
     => /\ validation.valid
        /\ Cardinality({k \in 1..Len(validation.errors) :
                          validation.errors[k].kind = "skipped"}) = 2

\* C8: a bundle with a failed check ends FAILED, also when it holds
\* placeholder entries: a non-placeholder entry with a content-hash mismatch
\* or a broken link, or a ledger mismatch at any index or in the count.
C8_FailureWins ==
  (/\ vpc = "done"
   /\ report.contract # "error"
   /\ \/ \E i \in 1..Len(bundle) :
           /\ ~isPlaceholder(bundle[i])
           /\ hashContent(bundle[i].content) # bundle[i].entryHash
      \/ /\ Len(bundle) > 0
         /\ ~isPlaceholder(bundle[1])
         /\ bundle[1].previousHash # GENESIS_HASH
      \/ \E i \in 2..Len(bundle) :
           /\ ~isPlaceholder(bundle[i])
           /\ ~isPlaceholder(bundle[i - 1])
           /\ bundle[i].previousHash # bundle[i - 1].entryHash
      \/ Len(ledger) # Len(bundle)
      \/ \E i \in 1..Len(bundle) :
           \/ bundle[i].name # ledger[i].name
           \/ bundle[i].entryHash # ledger[i].entryHash
           \/ bundle[i].previousHash # ledger[i].previousHash)
  => verdict = "VERIFICATION FAILED"

\* C9: when getAllEntries or the contract's validateChain throws, the verdict
\* is none of PASSED, PASSED_WITH_PLACEHOLDERS (RECONSTRUCTED LOGBOOK), FAILED.
C9_IncompleteIsDistinct ==
  (vpc = "done" /\ report.contract = "error")
  => verdict \notin {"VERIFICATION PASSED", "RECONSTRUCTED LOGBOOK", "VERIFICATION FAILED"}

C11_FailureSurfaced == ~(rpc = "returned" /\ ~syncResult.success)

\* C12: a rebuild that follows a completed rebuild from the same ledger
\* snapshot, with no entry file written in between, leaves chain.json and
\* every entry file exactly as the earlier rebuild left them.
C12_RebuildIdempotent ==
  [][(rpc = "chainWritten" /\ rpc' = "rebuilt" /\ lastRun.n >= 1)
       => /\ disk' = lastRun.disk
          /\ files' = lastRun.files]_vars

C12_Witness ==
  /\ rpc = "rebuilt"
  /\ lastRun.n >= 2
  /\ Len(disk.entries) = 2
  /\ \E n \in Names : files[n] = placeholder(check.contractEntries[2])

\* C13: no step of reconstruct() changes an entry file that exists: files are
\* only created, and only where there was none.
C13_ExistingFilesKept ==
  [][(rpc # "idle" \/ rpc' # "idle")
       => \A n \in Names : files[n] # NoFile => files'[n] = files[n]]_vars

C13_Witness ==
  /\ rpc = "rebuilt"
  /\ Len(check.contractEntries) = 2
  /\ files[check.contractEntries[1].name] \in GenuineContents
  /\ files[check.contractEntries[2].name] = placeholder(check.contractEntries[2])


\* C14: nothing the caller does to the array getEntries returned (reordering
\* it, truncating it, assigning a field of one of its entry objects) changes
\* the entries the ChainManager holds or the persisted chain.
C14_DefensiveCopy ==
  [][(\/ CallerReverses
      \/ CallerTruncates
      \/ \E j \in 1..MaxLen : CallerAssigns(j, NotHex(1)))
     => (mem' = mem /\ disk' = disk)]_vars

\* C15: the report of validateChain holds one genesis finding iff the first
\* previousHash is not GENESIS_HASH, one linkage finding for index i iff
\* entries[i].previousHash # entries[i-1].entryHash, one content finding per
\* entry whose file is missing or does not hash to its entryHash (reported
\* under the entry's name), nothing else, and valid iff there is no finding.
C15_FindingsLocalized ==
  \A i \in User :
    LET entries == mem[i].entries
        n == Len(entries)
        errors == validation.errors
        Found(kinds) == {k \in 1..Len(errors) : errors[k].kind \in kinds}
        Broken == {k \in 2..n : entries[k].previousHash # entries[k - 1].entryHash}
        Bad == {k \in 1..n :
                  \/ files[entries[k].name] = NoFile
                  \/ hashContent(files[entries[k].name]) # entries[k].entryHash}
    IN (validation # NoValidation /\ mem[i].open) =>
         /\ validation.valid = (Len(errors) = 0)
         /\ n = 0 => Len(errors) = 0
         /\ n > 0 => Cardinality(Found({"genesis"})) =
                       (IF entries[1].previousHash # GENESIS_HASH THEN 1 ELSE 0)
         /\ \A k \in 2..n :
              Cardinality({f \in Found({"link"}) : errors[f].index = k - 1}) =
                (IF k \in Broken THEN 1 ELSE 0)
         /\ \A name \in Names :
              Cardinality({f \in Found({"missing", "read", "content"}) :
                             errors[f].name = name}) =
                Cardinality({k \in Bad : entries[k].name = name})
         /\ Len(errors) = Cardinality(Found({"genesis"})) + Cardinality(Broken)
                            + Cardinality(Bad)

C15_Witness ==
  /\ Len(mem[1].entries) = 3
  /\ validation.errors = <<[kind |-> "link", index |-> 2, name |-> ""],
                           [kind |-> "content", index |-> -1, name |-> "n2"]>>

C17_EntryHashCanonical ==
  \A i \in Inst : \A k \in 1..Len(mem[i].entries) :
    CanonicalHash(mem[i].entries[k].entryHash)

\* C18: an addEntry call that is rejected throws and leaves the entries in
\* memory and chain.json as they were; a call with timestamp 0 and
\* blockNumber 0 is accepted and appends an entry with these values.
C18_RejectionLeavesState ==
  [][\A i \in User, h \in EntryHashInputs, t \in TxHashes \cup BadTxHashes,
        ts \in NumberInputs, bn \in NumberInputs :
       /\ AddEntryRejected(i, "n1", h, t, ts, bn) =>
            (thrown' # "none" /\ mem' = mem /\ disk' = disk)
       /\ AddEntry(i, "n1", h, t, ts, bn) =>
            /\ thrown' = "none"
            /\ t \in TxHashes /\ ts >= 0 /\ bn >= 0
            /\ mem'[i].entries[Len(mem'[i].entries)].timestamp = ts
            /\ mem'[i].entries[Len(mem'[i].entries)].blockNumber = bn]_vars

C18_Witness ==
  /\ thrown = "Block number must be a positive number"
  /\ Len(mem[1].entries) = 1
  /\ mem[1].entries[1].timestamp = 0
  /\ mem[1].entries[1].blockNumber = 0
  /\ disk.entries = mem[1].entries

\* C19: chain.json always holds a complete document (or does not exist yet),
\* also when the process dies during a save.
C19_NeverPartial == disk.state \in {"absent", "ok"}

\* C20: addEntry appends exactly the entry it returns after an unchanged
\* prefix, reconstruct(E) makes the sequence exactly E, clear makes it empty,
\* getEntries, getLastEntry and validateChain leave it alone, and the
\* sequence of an open ChainManager changes in no other way.
C20_ThreeWaysToChange ==
  [][\A i \in User :
       /\ \A h \in EntryHashInputs, t \in TxHashes \cup BadTxHashes,
             ts \in NumberInputs, bn \in NumberInputs :
            AddEntry(i, "n1", h, t, ts, bn) =>
              /\ mem'[i].entries =
                   Append(mem[i].entries, mem'[i].entries[Len(mem'[i].entries)])
              /\ mem'[i].entries[Len(mem'[i].entries)].name = "n1"
              /\ mem'[i].entries[Len(mem'[i].entries)].entryHash = h
              /\ disk'.entries = mem'[i].entries
       /\ \A E \in ReplaceInputs :
            Reconstruct(i, E) => (mem'[i].entries = E /\ disk'.entries = E)
       /\ Clear(i) => (mem'[i].entries = <<>> /\ disk'.entries = <<>>)
       /\ (GetEntries(i) \/ GetLastEntry(i) \/ ValidateChain(i))
            => (mem' = mem /\ disk' = disk)
       /\ (mem[i].open /\ mem'[i].open /\ mem'[i].entries # mem[i].entries) =>
            \/ /\ Len(mem'[i].entries) = Len(mem[i].entries) + 1
               /\ SubSeq(mem'[i].entries, 1, Len(mem[i].entries)) = mem[i].entries
            \/ mem'[i].entries \in ReplaceInputs]_vars

C20_Witness ==
  /\ Len(mem[1].entries) = 3
  /\ SubSeq(mem[1].entries, 1, 2) = Replacement
  /\ mem[1].entries[3].txHash \in TxHashes
  /\ returned = [from |-> 1, refs |-> <<3>>]

\* C21: opening a ChainManager on a chain.json that does not parse or has no
\* logbookName or entries array throws, opens nothing and leaves chain.json
\* as it was.
C21_CorruptStoreKept ==
  [][\A i \in Inst :
       (disk.state \in {"partial", "invalid"} /\ Open(i))
         => (thrown' # "none" /\ disk' = disk /\ mem' = mem)]_vars

C21_Witness ==
  /\ disk = Invalid
  /\ thrown = "Invalid chain.json structure"
  /\ \A i \in Inst : ~mem[i].open

\* C22: after each successful addEntry, clear and reconstruct chain.json holds
\* the entries the ChainManager holds; a ChainManager opened on the logbook
\* holds the persisted entries, the same as the ChainManager working on it;
\* opened on a logbook without chain.json it holds, and persists, the empty
\* chain.
C22_PersistedIsInMemory ==
  [][/\ \A i \in User :
          (mem'[i].open /\ mem'[i] # mem[i]) => disk' = Doc(mem'[i].entries)
     /\ \A j \in Inst :
          (Open(j) /\ thrown' = "none") =>
            /\ disk.state = "absent" =>
                 (mem'[j].entries = <<>> /\ disk' = Doc(<<>>))
            /\ disk.state = "ok" =>
                 (mem'[j].entries = disk.entries /\ disk' = disk)
            /\ \A i \in User \ {j} :
                 mem[i].open => mem'[j].entries = mem[i].entries]_vars

C22_Witness ==
  /\ mem[1].open /\ mem[2].open
  /\ Len(mem[1].entries) = 3
  /\ mem[2].entries = mem[1].entries
  /\ mem[1].entries[1].txHash = RECONSTRUCTED
  /\ mem[1].entries[3].txHash \in TxHashes

\* C23: a rebuild only moves on to its next step and throws nothing, also
\* when the ledger's previousHash values are inconsistent: chain.json gets the ledger's
\* previousHash values as they are, validateChain runs right after the
\* placeholder files, and for an inconsistent ledger its report is not valid
\* and holds the genesis finding and a linkage finding for each broken index.
C23_InconsistentLedgerReported ==
  /\ [][LET L == check.contractEntries
            Broken == {k \in 2..Len(L) : L[k].previousHash # L[k - 1].entryHash}
            errors == validation'.errors
        IN /\ (rpc = "rebuilding" /\ rpc' # rpc) => rpc' = "chainWritten"
           /\ (rpc = "chainWritten" /\ rpc' # rpc) => rpc' = "rebuilt"
           /\ (rpc = "rebuilding" /\ rpc' = "chainWritten") =>
                /\ L = ledger
                /\ Len(disk'.entries) = Len(L)
                /\ \A k \in 1..Len(L) : disk'.entries[k].previousHash = L[k].previousHash
                /\ thrown' = "none"
           /\ (rpc = "chainWritten" /\ rpc' = "rebuilt") =>
                /\ thrown' = "none"
                /\ validation' # NoValidation
                /\ (L[1].previousHash # GENESIS_HASH) =
                     (\E f \in 1..Len(errors) : errors[f].kind = "genesis")
                /\ \A k \in 2..Len(L) :
                     (k \in Broken) =
                       (\E f \in 1..Len(errors) :
                          errors[f].kind = "link" /\ errors[f].index = k - 1)
                /\ (L[1].previousHash # GENESIS_HASH \/ Broken # {})
                     => ~validation'.valid]_vars

C23_Witness ==
  /\ rpc = "rebuilt"
  /\ Len(check.contractEntries) = 2
  /\ check.contractEntries[1].previousHash = GENESIS_HASH
  /\ check.contractEntries[2].previousHash # check.contractEntries[1].entryHash
  /\ disk.entries = chainEntries(check.contractEntries)
  /\ ~validation.valid
  /\ \E f \in 1..Len(validation.errors) :
       validation.errors[f].kind = "link" /\ validation.errors[f].index = 1

\* C24: in a finished verification every entry that is not a placeholder
\* reports HASH MISMATCH at its own index when its content does not hash to
\* its entryHash, and VALID when it does; one mismatch makes the verdict
\* VERIFICATION FAILED.
C24_MismatchFails ==
  vpc = "done" =>
    \A i \in 1..Len(bundle) :
      ~isPlaceholder(bundle[i]) =>
        IF hashContent(bundle[i].content) = bundle[i].entryHash
          THEN report.content[i] = "VALID"
          ELSE /\ report.content[i] = "HASH MISMATCH"
               /\ verdict = "VERIFICATION FAILED"

\* C25: after the local steps of a verification, an entry that is a
\* placeholder or follows a placeholder is SKIPPED; any other entry 0 is LINKED
\* exactly when its previousHash is GENESIS_HASH and any other entry i >= 1
\* exactly when its previousHash is entries[i-1].entryHash, BROKEN LINK
\* otherwise; allValid is false only for a hash mismatch or a broken link of an
\* entry that was not skipped.
C25_LinkageCheck ==
  vpc = "getAllEntries" =>
    LET skipped(i) == isPlaceholder(bundle[i]) \/ (i > 1 /\ isPlaceholder(bundle[i - 1]))
        expectedPrev(i) == IF i = 1 THEN GENESIS_HASH ELSE bundle[i - 1].entryHash
        linked(i) == bundle[i].previousHash = expectedPrev(i)
    IN /\ \A i \in 1..Len(bundle) :
            report.link[i] = IF skipped(i) THEN "SKIPPED"
                             ELSE IF linked(i) THEN "LINKED" ELSE "BROKEN LINK"
       /\ allValid =
            \A i \in 1..Len(bundle) :
              /\ ~isPlaceholder(bundle[i]) => hashContent(bundle[i].content) = bundle[i].entryHash
              /\ ~skipped(i) => linked(i)

C25_Witness ==
  /\ vpc = "getAllEntries"
  /\ Len(bundle) = 2
  /\ isPlaceholder(bundle[1])
  /\ ~isPlaceholder(bundle[2])
  /\ bundle[2].previousHash # bundle[1].entryHash
  /\ report.link = <<"SKIPPED", "SKIPPED">>
  /\ allValid

\* C26: a finished verification of a bundle without placeholders ends
\* VERIFICATION FAILED when the ledger holds another number of entries than
\* the bundle, or differs from it at some index in name, entryHash or
\* previousHash; a reached ledger reports the count mismatch, or MISMATCH at
\* each differing index.
C26_LedgerMismatchFails ==
  LET differs(i) == \/ bundle[i].name # ledger[i].name
                    \/ bundle[i].entryHash # ledger[i].entryHash
                    \/ bundle[i].previousHash # ledger[i].previousHash
  IN (vpc = "done" /\ \A i \in 1..Len(bundle) : ~isPlaceholder(bundle[i])) =>
       /\ Len(ledger) # Len(bundle) =>
            /\ verdict = "VERIFICATION FAILED"
            /\ report.count \in {"mismatch", "none"}
       /\ (Len(ledger) = Len(bundle) /\ \E i \in 1..Len(bundle) : differs(i)) =>
            /\ verdict = "VERIFICATION FAILED"
            /\ report.count = "match" =>
                 \A i \in 1..Len(bundle) : (report.chain[i] = "MISMATCH") = differs(i)

C26_Witness ==
  /\ vpc = "done"
  /\ Len(bundle) = 2
  /\ Len(ledger) = 2
  /\ report.content = <<"VALID", "VALID">>
  /\ report.link = <<"LINKED", "LINKED">>
  /\ report.chain = <<"MATCHES CONTRACT", "MISMATCH">>
  /\ ledger[2].name # bundle[2].name
  /\ ledger[2].entryHash = bundle[2].entryHash
  /\ ledger[2].previousHash = bundle[2].previousHash
  /\ report.contract = "valid"
  /\ verdict = "VERIFICATION FAILED"

\* C27: the bundle exported from a chain holds the chain's entries in chain
\* order, each with the content of its entry file, and for a linked chain with
\* its entryHash and previousHash; when every content hashes to its entryHash,
\* the linkage is intact, no content is a placeholder, the ledger returns the
\* same name, entryHash and previousHash at every index and validates as
\* valid, the verification of that bundle ends VERIFICATION PASSED.
C27_ExportThenVerify ==
  vpc # "off" =>
    LET chain == disk.entries
        linked == \A k \in 1..Len(chain) :
                    chain[k].previousHash =
                      IF k = 1 THEN GENESIS_HASH ELSE chain[k - 1].entryHash
        genuine == \A k \in 1..Len(chain) :
                     /\ hashContent(files[chain[k].name]) = chain[k].entryHash
                     /\ files[chain[k].name][1] # 1
        sameLedger == /\ Len(ledger) = Len(chain)
                      /\ \A k \in 1..Len(chain) :
                           /\ ledger[k].name = chain[k].name
                           /\ ledger[k].entryHash = chain[k].entryHash
                           /\ ledger[k].previousHash = chain[k].previousHash
    IN /\ Len(bundle) = Len(chain)
       /\ \A k \in 1..Len(chain) :
            /\ bundle[k].index = k - 1
            /\ bundle[k].name = chain[k].name
            /\ bundle[k].content = files[chain[k].name]
            /\ bundle[k].entryHash = chain[k].entryHash
            /\ linked => bundle[k].previousHash = chain[k].previousHash
       /\ (vpc = "done" /\ linked /\ genuine /\ sameLedger /\ report.contract = "valid")
            => verdict = "VERIFICATION PASSED"

C27_Witness ==
  /\ vpc = "done"
  /\ Len(disk.entries) = 2
  /\ bundle = exportData(disk.entries, files)
  /\ bundle[1].content = Text(1)
  /\ bundle[2].content = Text(1)
  /\ bundle[2].previousHash = bundle[1].entryHash
  /\ report.content = <<"VALID", "VALID">>
  /\ report.chain = <<"MATCHES CONTRACT", "MATCHES CONTRACT">>
  /\ report.contract = "valid"
  /\ verdict = "VERIFICATION PASSED"

\* C28: for a non-empty leaf list and a leaf in it, the proof getMerkleProof
\* makes from the tree of the list verifies against the tree's root; the tree
\* hashes sorted sibling pairs and carries an unpaired last node up unchanged.
C28_ProofVerifies ==
  LET leaves == merkle.leaves
      n == Len(leaves)
      layers == treeLayers(merkle.tree)
  IN /\ merkle.pc \in {"tree", "proof", "done"} =>
          /\ \A k \in 1..(Len(layers) - 1) :
               /\ Len(layers[k + 1]) = (Len(layers[k]) + 1) \div 2
               /\ \A j \in 1..Len(layers[k + 1]) :
                    layers[k + 1][j] =
                      IF 2 * j > Len(layers[k]) THEN layers[k][2 * j - 1]
                      ELSE IF BufferLeq(layers[k][2 * j - 1], layers[k][2 * j])
                        THEN Sha256Bytes(layers[k][2 * j - 1], layers[k][2 * j])
                        ELSE Sha256Bytes(layers[k][2 * j], layers[k][2 * j - 1])
          /\ Len(layers[Len(layers)]) = 1
          /\ merkle.root = <<2>> \o layers[Len(layers)][1]
     /\ (merkle.pc = "done" /\ \E i \in 1..n : leaves[i] = merkle.leaf)
          => merkle.verified

C28_Witness ==
  /\ merkle.pc = "done"
  /\ Len(merkle.leaves) = 5
  /\ merkle.leaf = merkle.leaves[5]
  /\ \A i \in 1..4 : merkle.leaves[i] # merkle.leaf
  /\ Len(merkle.proof) = 1
  /\ merkle.verified

\* C29: the merkleRoot an entry carries, whether addEntry or a rebuild from
\* the ledger recorded it, is the root a rebuild from a ledger holding the
\* chain's entry hashes produces at that index, and both are the top of the
\* tree built in full over the entry hashes up to that index.
C29_RootOfLeafSequence ==
  LET asLedger(entries) ==
        [k \in 1..Len(entries) |->
           [name |-> entries[k].name, entryHash |-> entries[k].entryHash,
            previousHash |-> entries[k].previousHash,
            timestamp |-> entries[k].timestamp, blockNumber |-> entries[k].blockNumber]]
      fullRebuild(entries, k) ==
        LET layers == treeLayers([j \in 1..k |-> hashLeaf(entries[j].entryHash)])
        IN <<2>> \o layers[Len(layers)][1]
      SameRoots(entries) ==
        \A k \in 1..Len(entries) :
          /\ entries[k].merkleRoot = chainEntries(asLedger(entries))[k].merkleRoot
          /\ entries[k].merkleRoot = fullRebuild(entries, k)
  IN SameRoots(disk.entries) /\ \A i \in User : SameRoots(mem[i].entries)

C29_Witness ==
  /\ Len(mem[1].entries) = 3
  /\ mem[1].entries[1].txHash = RECONSTRUCTED
  /\ mem[1].entries[2].txHash \in TxHashes
  /\ mem[1].entries[3].txHash \in TxHashes
  /\ mem[1].entries[3].entryHash # mem[1].entries[2].entryHash
  /\ disk.entries = mem[1].entries

\* C30: no chain held in memory or persisted has two entries of the same
\* name (an addEntry with a name the chain holds is never taken in).
C30_UniqueNames ==
  LET Unique(entries) ==
        \A j, k \in 1..Len(entries) : j # k => entries[j].name # entries[k].name
  IN Unique(disk.entries) /\ \A i \in Inst : Unique(mem[i].entries)

\* C31: in create() the chain grows only after anchorEntry succeeded: a step
\* outside a rebuild that changes the persisted entries ends with the entry
\* the ledger has just taken and holds entries of the ledger only; a failed anchorEntry ends the flow with the
\* error "Anchor failed" and a declined confirmation ends it silently, both
\* leaving chain.json, the in-memory chain, the entry files and the ledger
\* as they were.
C31_AnchorBeforeAppend ==
  [][/\ (create.pc = "anchoring" /\ create'.pc = "idle") =>
          /\ thrown' = "Anchor failed"
          /\ UNCHANGED <<disk, mem, files, ledger>>
     /\ (create.pc = "anchoring" /\ create'.pc # "idle") =>
          /\ create'.pc = "anchored"
          /\ ledger' = Append(ledger, [name |-> create.name,
                                       entryHash |-> create.entryHash,
                                       previousHash |-> create.previousHash,
                                       timestamp |-> 2, blockNumber |-> 3])
     /\ \A i \in User, content \in GenuineContents :
          CPrompt(i, content, FALSE) =>
            /\ create'.pc = "idle"
            /\ UNCHANGED <<disk, mem, files, ledger>>
     /\ (disk'.entries # disk.entries /\ rpc # "rebuilding") =>
          /\ create.pc = "anchored"
          /\ Len(ledger) > 0
          /\ ledger[Len(ledger)].entryHash = create.entryHash
          /\ ledger[Len(ledger)].name = create.name
          /\ Len(disk'.entries) > Len(disk.entries)
          /\ \A k \in 1..Len(disk'.entries) :
               \E j \in 1..Len(ledger) :
                 /\ ledger[j].name = disk'.entries[k].name
                 /\ ledger[j].entryHash = disk'.entries[k].entryHash
          /\ disk'.entries[Len(disk'.entries)].entryHash = create.entryHash
          /\ disk'.entries[Len(disk'.entries)].name = create.name]_vars

C31_Witness ==
  /\ thrown = "Anchor failed"
  /\ create = NoCreate
  /\ Len(disk.entries) = 1
  /\ disk.entries[1].txHash \in TxHashes
  /\ files["n2"] = NoFile
  /\ Len(ledger) = 1

\* C32: a reconstruct run whose ledger query failed or returned no entries
\* goes from the query to the check, the early return and the menu, and none
\* of these steps changes chain.json, the in-memory chains or an entry file.
C32_QuietRunChangesNothing ==
  [][LET Quiet(s) == ~s.success \/ Len(s.entries) = 0
     IN /\ (rpc = "querying" /\ rpc' # rpc /\ Quiet(syncResult')) =>
             (rpc' = "checked" /\ UNCHANGED <<disk, mem, files>>)
        /\ (rpc = "checked" /\ rpc' # rpc /\ Quiet(syncResult)) =>
             (rpc' = "returned" /\ UNCHANGED <<disk, mem, files>>)
        /\ (rpc = "returned" /\ rpc' # rpc /\ Quiet(syncResult)) =>
             (rpc' = "idle" /\ UNCHANGED <<disk, mem, files>>)]_vars

C32_Witness ==
  /\ rpc = "returned"
  /\ ~syncResult.success
  /\ Len(disk.entries) = 2
  /\ files["n1"] \in GenuineContents
  /\ Len(ledger) > 0

\* C33: the banner printed at the end of a verification is the one any
\* other metadata code hash and any other code hashes in the proof files
\* would have given, and the code-hash step changes neither allValid nor
\* hasPlaceholders.
C33_VerdictIgnoresCodeHash ==
  [][\A metaCodeHash \in CodeHashes, proofs \in ProofCodeHashes(Len(bundle)) :
       VVerdict(metaCodeHash, proofs) =>
         /\ \A other \in ProofCodeHashes(Len(bundle)) :
              verdict' = banner(hasPlaceholders, allValid, codeHashInconsistent(other))
         /\ UNCHANGED <<allValid, hasPlaceholders>>]_vars

C33_Witness ==
  /\ vpc = "done"
  /\ verdict = "VERIFICATION PASSED"
  /\ report.code.meta = "CODE VERSION MISMATCH"
  /\ report.code.inconsistent
  /\ report.code.proof = <<"CODE VERSION", "CODE VERSION OK">>

\* C34: at the end of a verification of an exported bundle, an entry whose
\* txHash is not "reconstructed" and whose content does not hash to its
\* entryHash makes the verdict VERIFICATION FAILED.
C34_TamperedAnchoredFails ==
  vpc = "done" =>
    \A k \in 1..Len(bundle) :
      (/\ bundle[k].txHash # RECONSTRUCTED
       /\ hashContent(bundle[k].content) # bundle[k].entryHash)
        => verdict = "VERIFICATION FAILED"

\* C35: an addEntry call made on a ChainManager whose in-memory chain equals
\* chain.json leaves the two equal, whether its save succeeds or throws.
C35_MemoryMatchesDisk ==
  [][\A i \in User, saved \in BOOLEAN, written \in BOOLEAN :
       (CRecord(i, TRUE, saved, written) /\ mem[i].entries = disk.entries) =>
         mem'[i].entries = disk'.entries]_vars

\* C36: the entry addEntry records at the end of the creation flow carries
\* the previousHash that saveAndAnchor sent to the ledger in anchorEntry.
C36_SentEqualsRecorded ==
  [][\A i \in User, saved \in BOOLEAN, written \in BOOLEAN :
       CRecord(i, TRUE, saved, written) =>
         mem'[i].entries[Len(mem'[i].entries)].previousHash = create.previousHash]_vars

\* C37: when the creation flow ends after its anchor call, with success or
\* with an error, on a logbook in which every entry of chain.json had an
\* entry.txt hashing to its entryHash, every entry of chain.json still has one.
C37_EntryAndContentTogether ==
  [][LET Whole(d, fs) ==
           \A k \in 1..Len(d.entries) :
             /\ fs[d.entries[k].name] \notin {NoFile, Unreadable}
             /\ hashContent(fs[d.entries[k].name]) = d.entries[k].entryHash
     IN (create.pc = "anchored" /\ create'.pc = "idle" /\ Whole(disk, files)) =>
          Whole(disk', files')]_vars

\* C38: with one writer and a ledger that checks previousHash, in every state
\* of the creation and reconstruction flows chain.json has no more entries than
\* the ledger and its k-th entryHash is the ledger's k-th entryHash.
C38_LocalPrefixOfLedger ==
  /\ Len(disk.entries) <= Len(ledger)
  /\ \A k \in 1..Len(disk.entries) : disk.entries[k].entryHash = ledger[k].entryHash

\* C39: a run of reconstruct() whose query returned entries finds that the
\* logbook needs reconstruction, and never takes the "already valid and
\* up-to-date" return, while chain.json holds an entry with txHash
\* "reconstructed", whatever files were restored or entries appended since
\* the rebuild.
C39_PlaceholdersKeepRebuilding ==
  (rpc \in {"checked", "returned"} /\ syncResult.success /\ Len(syncResult.entries) > 0) =>
    ((\E k \in 1..Len(disk.entries) : disk.entries[k].txHash = RECONSTRUCTED) =>
       (check.needsReconstruction /\ rpc # "returned"))

C39_Witness ==
  /\ rpc = "rebuilding"
  /\ check.needsReconstruction
  /\ Len(disk.entries) = 2
  /\ Len(check.contractEntries) = 2
  /\ disk.entries[1].txHash = RECONSTRUCTED
  /\ disk.entries[2].txHash \in TxHashes
  /\ disk.entries[2].entryHash = check.contractEntries[2].entryHash
  /\ files["n1"] \in GenuineContents
  /\ hashContent(files["n1"]) = disk.entries[1].entryHash

====
